---- MODULE Spec2Model ----
(***************************************************************************)
(* HardwareBackend: the cart / wishlist aggregators, the product catalog   *)
(* manager and the auth gate, as a state machine over the document store.  *)
(*                                                                         *)
(* Every handler is an async function.  The synchronous prefix of a        *)
(* handler (destructuring, id validation, quantity coercion) touches no    *)
(* shared state, so it is taken together with the handler's first awaited  *)
(* store operation; every later awaited store operation is a step of its   *)
(* own, and requests in different slots interleave between steps.          *)
(***************************************************************************)
EXTENDS Integers, Sequences, FiniteSets, TLC

\* ------------------------------------------------------------------ bounds
\* Requests accepted over a whole behaviour.
MaxRequests == 3

\* ------------------------------------------------------------ value spaces
\* Request slots: the requests that can be in flight at the same time.
Slots == {"r1", "r2"}
Users == {"u1", "u2"}
\* ObjectIds are positive integers here; the two products of the seeded catalog.
SeedProductIds == {1, 2}
\* An id string that is not a 24 character hexadecimal ObjectId.
BadId == 0
\* An id missing from the request.
NoId == -1
\* A missing field (undefined).
Absent == <<"undefined">>
\* req.body.quantity as JSON values, each in the text parseInt converts it to.
QuantityInputs ==
  { Absent, <<"1">>, <<"2">>, <<"0">>, <<"-", "1">>, <<"a">>, <<"2", ".", "5">> }

\* req.body.sku as sent: none, a sku, the same sku with a leading blank,
\* another sku, and a blank string.
SkuInputs == { Absent, <<"A">>, <<" ", "A">>, <<"B">>, <<" ">> }
\* Well-formed quantities only.
PlainQuantities == { <<"1">>, <<"2">> }
\* The productId values a client can send: a product, a malformed id, none.
ProductIdInputs == SeedProductIds \cup {BadId, NoId}

\* ------------------------------------------------- JavaScript conversions
Digits == {"0", "1", "2", "3", "4", "5", "6", "7", "8", "9"}

DigitVal(c) ==
  CASE c = "0" -> 0 [] c = "1" -> 1 [] c = "2" -> 2 [] c = "3" -> 3
    [] c = "4" -> 4 [] c = "5" -> 5 [] c = "6" -> 6 [] c = "7" -> 7
    [] c = "8" -> 8 [] c = "9" -> 9

NaN == [nan |-> TRUE, val |-> 0]
Num(n) == [nan |-> FALSE, val |-> n]

RECURSIVE SkipSpaces(_)
SkipSpaces(str) ==
  IF str # <<>> /\ Head(str) = " " THEN SkipSpaces(Tail(str)) ELSE str

\* The value of the longest prefix of decimal digits of str, read after acc.
RECURSIVE DigitsValue(_, _)
DigitsValue(str, acc) ==
  IF str # <<>> /\ Head(str) \in Digits
    THEN DigitsValue(Tail(str), 10 * acc + DigitVal(Head(str)))
    ELSE acc

\* parseInt(x, 10): leading white space, an optional sign, then digits up to
\* the first character that is no digit; NaN when there is no digit.
ParseInt(x) ==
  LET str  == SkipSpaces(x)
      neg  == str # <<>> /\ Head(str) = "-"
      body == IF str # <<>> /\ Head(str) \in {"-", "+"} THEN Tail(str) ELSE str
  IN  IF body = <<>> \/ Head(body) \notin Digits
        THEN NaN
        ELSE Num(IF neg THEN 0 - DigitsValue(body, 0) ELSE DigitsValue(body, 0))

Max(a, b) == IF a >= b THEN a ELSE b

\* The parsed number taken as it comes: no "|| 1" and no Math.max.
AddQtyUnclamped(quantity) ==
  IF quantity = Absent THEN 1 ELSE ParseInt(quantity).val

\* const { quantity = 1 } = req.body;  Math.max(parseInt(quantity, 10) || 1, 1)
AddQty(quantity) ==
  LET n == IF quantity = Absent THEN Num(1) ELSE ParseInt(quantity)
  IN  Max(IF n.nan \/ n.val = 0 THEN 1 ELSE n.val, 1)

\* A check that only rejects what is no number at all.
UpdateQtyRejectedNaNOnly(quantity) == ParseInt(quantity).nan

\* const qty = parseInt(quantity, 10);  if (!qty || qty < 1) -> 400
UpdateQtyRejected(quantity) ==
  LET n == ParseInt(quantity)
  IN  n.nan \/ n.val = 0 \/ n.val < 1

UpdateQty(quantity) == ParseInt(quantity).val

UpperCase ==
  << "A", "B", "C", "D", "E", "F", "G", "H", "I", "J", "K", "L", "M",
     "N", "O", "P", "Q", "R", "S", "T", "U", "V", "W", "X", "Y", "Z" >>
LowerCase ==
  << "a", "b", "c", "d", "e", "f", "g", "h", "i", "j", "k", "l", "m",
     "n", "o", "p", "q", "r", "s", "t", "u", "v", "w", "x", "y", "z" >>

LowerChar(c) ==
  IF \E k \in DOMAIN UpperCase : UpperCase[k] = c
    THEN LowerCase[CHOOSE k \in DOMAIN UpperCase : UpperCase[k] = c]
    ELSE c

\* String.prototype.toLowerCase
ToLowerCase(str) == [k \in DOMAIN str |-> LowerChar(str[k])]

RECURSIVE TrimEnd(_)
TrimEnd(str) ==
  IF str # <<>> /\ str[Len(str)] = " "
    THEN TrimEnd(SubSeq(str, 1, Len(str) - 1))
    ELSE str

\* String(x).trim()
Trim(str) == TrimEnd(SkipSpaces(str))

\* Number(x) of a string: 0 for the blank string, the value of a decimal
\* integer literal, NaN for any other text drawn here.
ToNumber(x) ==
  LET str  == Trim(x)
      neg  == str # <<>> /\ Head(str) = "-"
      body == IF str # <<>> /\ Head(str) \in {"-", "+"} THEN Tail(str) ELSE str
  IN  IF str = <<>> THEN Num(0)
      ELSE IF body = <<>> \/ \E k \in DOMAIN body : body[k] \notin Digits THEN NaN
      ELSE Num(IF neg THEN 0 - DigitsValue(body, 0) ELSE DigitsValue(body, 0))

\* !id || !mongoose.Types.ObjectId.isValid(id), and /^[0-9a-fA-F]{24}$/.test(id)
IsValidObjectId(id) == id # NoId /\ id # BadId

\* ------------------------------------------------------------------- state
VARIABLES
  products,       \* Product collection: a set of documents
  cartItems,      \* CartItem collection: a set of documents
  wishlistItems,  \* WishlistItem collection: a set of documents
  nextId,         \* the next _id the store hands out
  storeUp,        \* FALSE while the store fails every operation
  rq,             \* per slot: the request in flight and its response
  started         \* requests accepted so far

vars == <<products, cartItems, wishlistItems, nextId, storeUp, rq, started>>

NoItem == [id |-> NoId, user |-> "none", product |-> NoId, quantity |-> 0]
NoSummary == [items |-> {}, count |-> 0, total |-> 0]
NoProduct == [id |-> NoId, isActive |-> FALSE, price |-> 0, sku |-> Absent]
\* No Authorization header.
NoToken == "none"

IdleRequest ==
  [ op |-> "none", pc |-> "idle", user |-> "none", productId |-> NoId,
    id |-> NoId, quantity |-> Absent, item |-> NoItem,
    router |-> "none", token |-> NoToken, sku |-> Absent, price |-> Absent,
    product |-> NoProduct,
    status |-> 0, responses |-> 0, summary |-> NoSummary ]

\* The seeded catalog: two active products, one with a sku.
SeedProducts ==
  { [id |-> 1, isActive |-> TRUE, price |-> 10, sku |-> <<"A">>],
    [id |-> 2, isActive |-> TRUE, price |-> 5, sku |-> Absent] }

Init ==
  /\ products = SeedProducts
  /\ cartItems = {}
  /\ wishlistItems = {}
  /\ nextId = 3
  /\ storeUp = TRUE
  /\ rq = [s \in Slots |-> IdleRequest]
  /\ started = 0

\* ------------------------------------------------------------ store reads
\* Product.findOne({ _id: productId, isActive: true })
ActiveProduct(productId) ==
  \E p \in products : p.id = productId /\ p.isActive

PriceOf(productId) ==
  (CHOOSE p \in products : p.id = productId).price

\* CartItem.findOne({ user, product }): the document, or null.
FindCartItem(userId, productId) ==
  IF \E i \in cartItems : i.user = userId /\ i.product = productId
    THEN CHOOSE i \in cartItems : i.user = userId /\ i.product = productId
    ELSE NoItem

\* CartItem.findOne({ _id: id, user: userId }): the document, or null.
FindCartItemById(id, userId) ==
  IF \E i \in cartItems : i.id = id /\ i.user = userId
    THEN CHOOSE i \in cartItems : i.id = id /\ i.user = userId
    ELSE NoItem

\* A set of documents as the array the store returns, in _id order.
RECURSIVE InIdOrder(_)
InIdOrder(docs) ==
  IF docs = {} THEN <<>>
  ELSE LET first == CHOOSE d \in docs : \A e \in docs : d.id <= e.id
       IN  <<first>> \o InIdOrder(docs \ {first})

\* clean.reduce((sum, i) => sum + (Number(i.quantity) || 0), 0)
RECURSIVE ReduceCount(_, _)
ReduceCount(clean, sum) ==
  IF clean = <<>> THEN sum
  ELSE ReduceCount(Tail(clean), sum + Head(clean).quantity)

\* A total that adds up quantities and forgets the price.
RECURSIVE ReduceTotalNoPrice(_, _)
ReduceTotalNoPrice(clean, sum) ==
  IF clean = <<>> THEN sum
  ELSE ReduceTotalNoPrice(Tail(clean), sum + Head(clean).quantity)

\* clean.reduce((sum, i) => sum + (Number(i.quantity)||0) * (Number(i.product.price)||0), 0)
RECURSIVE ReduceTotal(_, _)
ReduceTotal(clean, sum) ==
  IF clean = <<>> THEN sum
  ELSE ReduceTotal(Tail(clean),
                   sum + Head(clean).quantity * PriceOf(Head(clean).product))

\* A populate without the isActive match: every existing product resolves.
PopulatedAnyProduct(item) == \E p \in products : p.id = item.product

\* populate({ path: "product", match: { isActive: true } }), then filter(i => i.product)
Populated(item) == ActiveProduct(item.product)

BuildCartSummary(userId) ==
  LET items == {i \in cartItems : i.user = userId}
      clean == {i \in items : Populated(i)}
  IN  [ items |-> clean,
        count |-> ReduceCount(InIdOrder(clean), 0),
        total |-> ReduceTotal(InIdOrder(clean), 0) ]

\* --------------------------------------------------------------- requests
Free(s) == rq[s].pc \in {"idle", "done", "unhandled"} /\ started < MaxRequests

Accept(s, r) ==
  /\ rq' = [rq EXCEPT ![s] = r]
  /\ started' = started + 1

\* res.status(status).json(summary)
Responded(r, status, summary) ==
  [r EXCEPT !.pc = "done", !.status = status,
            !.responses = r.responses + 1, !.summary = summary]

Await(r, pc) == [r EXCEPT !.pc = pc]

\* A rejection no catch block handles: the handler ends without a response.
Unhandled(r) == [r EXCEPT !.pc = "unhandled"]

\* ------------------------------------------------------------- cart store
\* A CartItem collection without the unique index: no insert is refused.
CartDuplicateKeyNoIndex(userId, productId) == FALSE

\* The unique index on CartItem (user, product): an insert of a second
\* document for the pair fails with duplicate key error 11000.
CartDuplicateKey(userId, productId) ==
  \E i \in cartItems : i.user = userId /\ i.product = productId

\* What item.save() does when the document was deleted after it was read:
\* it rejects with DocumentNotFoundError, or (older mongoose) resolves
\* having written nothing.
SaveMissingOutcomes == {"throw", "noop"}

\* item.quantity = quantity; await item.save(): $set on the document's _id.
SaveQuantity(item, quantity) ==
  {IF i.id = item.id THEN [i EXCEPT !.quantity = quantity] ELSE i : i \in cartItems}

Stored(item) == \E i \in cartItems : i.id = item.id

\* ---------------------------------------------------------------- getCart
\* GET /api/cart
GetCart(s) ==
  /\ Free(s)
  /\ \E u \in Users :
       LET r == [IdleRequest EXCEPT !.op = "getCart", !.user = u]
       IN  Accept(s, IF storeUp THEN Responded(r, 200, BuildCartSummary(u))
                              ELSE Responded(r, 500, NoSummary))
  /\ UNCHANGED <<products, cartItems, wishlistItems, nextId, storeUp>>

\* -------------------------------------------------------------- addToCart
\* POST /api/cart: validation, coercion and Product.findOne.
AddToCart(s, productIds, quantities) ==
  /\ Free(s)
  /\ \E u \in Users, pid \in productIds, q \in quantities :
       LET r == [IdleRequest EXCEPT !.op = "addToCart", !.user = u,
                                    !.productId = pid, !.quantity = q]
       IN  Accept(s, IF ~IsValidObjectId(pid) THEN Responded(r, 400, NoSummary)
                     ELSE IF ~storeUp THEN Responded(r, 500, NoSummary)
                     ELSE IF ~ActiveProduct(pid) THEN Responded(r, 404, NoSummary)
                     ELSE Await(r, "findItem"))
  /\ UNCHANGED <<products, cartItems, wishlistItems, nextId, storeUp>>

\* const item = await CartItem.findOne({ user: userId, product: productId })
AddToCartFindItem(s) ==
  /\ rq[s].op = "addToCart" /\ rq[s].pc = "findItem"
  /\ rq' = [rq EXCEPT ![s] =
              IF ~storeUp THEN Responded(@, 500, NoSummary)
              ELSE [Await(@, "write") EXCEPT
                      !.item = FindCartItem(rq[s].user, rq[s].productId)]]
  /\ UNCHANGED <<products, cartItems, wishlistItems, nextId, storeUp, started>>

\* item.quantity = Math.max((item.quantity || 0) + qty, 1)
Incremented(item, qty) == Max(item.quantity + qty, 1)

\* if (item) { ...; await item.save() } else { await CartItem.create(...) }
AddToCartWrite(s) ==
  LET r == rq[s]
      qty == AddQty(r.quantity)
  IN
  /\ r.op = "addToCart" /\ r.pc = "write"
  /\ IF ~storeUp THEN
       /\ rq' = [rq EXCEPT ![s] = Responded(r, 500, NoSummary)]
       /\ UNCHANGED <<cartItems, nextId>>
     ELSE IF r.item # NoItem THEN
       IF Stored(r.item) THEN
         /\ cartItems' = SaveQuantity(r.item, Incremented(r.item, qty))
         /\ rq' = [rq EXCEPT ![s] = Await(r, "summary")]
         /\ UNCHANGED nextId
       ELSE
         /\ \E outcome \in SaveMissingOutcomes :
              rq' = [rq EXCEPT ![s] = IF outcome = "throw"
                                        THEN Responded(r, 500, NoSummary)
                                        ELSE Await(r, "summary")]
         /\ UNCHANGED <<cartItems, nextId>>
     ELSE IF CartDuplicateKey(r.user, r.productId) THEN
       \* err.code === 11000, caught below
       /\ rq' = [rq EXCEPT ![s] = Await(r, "conflict")]
       /\ UNCHANGED <<cartItems, nextId>>
     ELSE
       /\ cartItems' = cartItems \cup
            {[id |-> nextId, user |-> r.user, product |-> r.productId,
              quantity |-> qty]}
       /\ nextId' = nextId + 1
       /\ rq' = [rq EXCEPT ![s] = Await(r, "summary")]
  /\ UNCHANGED <<products, wishlistItems, storeUp, started>>

\* const summary = await buildCartSummary(userId); res.status(201).json(summary)
AddToCartSummary(s) ==
  /\ rq[s].op = "addToCart" /\ rq[s].pc = "summary"
  /\ rq' = [rq EXCEPT ![s] =
              IF storeUp THEN Responded(@, 201, BuildCartSummary(rq[s].user))
                         ELSE Responded(@, 500, NoSummary)]
  /\ UNCHANGED <<products, cartItems, wishlistItems, nextId, storeUp, started>>

\* What becomes of a rejection thrown inside the catch block: the router
\* leaves it unhandled and no response is sent, or (a router that forwards
\* rejected handlers) its default error handler answers 500.
CatchRejectionOutcomes == {"unhandled", "forwarded"}

\* A catch block that does not tell the duplicate key error from the rest.
AddToCartConflictAs500(s) ==
  /\ rq[s].op = "addToCart" /\ rq[s].pc = "conflict"
  /\ rq' = [rq EXCEPT ![s] = Responded(@, 500, NoSummary)]
  /\ UNCHANGED <<products, cartItems, wishlistItems, nextId, storeUp, started>>

\* catch (err) { if (err?.code === 11000) { await buildCartSummary(...); 409 } }
AddToCartConflict(s) ==
  /\ rq[s].op = "addToCart" /\ rq[s].pc = "conflict"
  /\ IF storeUp
       THEN rq' = [rq EXCEPT ![s] =
                     Responded(@, 409, BuildCartSummary(rq[s].user))]
       ELSE \E outcome \in CatchRejectionOutcomes :
              rq' = [rq EXCEPT ![s] = IF outcome = "unhandled"
                                        THEN Unhandled(@)
                                        ELSE Responded(@, 500, NoSummary)]
  /\ UNCHANGED <<products, cartItems, wishlistItems, nextId, storeUp, started>>


\* The cart item ids a client can send: those of stored items (its own or
\* another user's), a well-formed id of no cart item, and a malformed one.
CartIdInputs == {i.id : i \in cartItems} \cup {1, BadId}

\* ---------------------------------------------------------- updateCartQty
\* PATCH /api/cart/:id: validation, parseInt and CartItem.findOne.
UpdateCartQty(s, inputs) ==
  /\ Free(s)
  /\ \E u \in Users, input \in inputs :
       LET id == input[1]
           q == input[2]
           r == [IdleRequest EXCEPT !.op = "updateCartQty", !.user = u,
                                    !.id = id, !.quantity = q]
           item == FindCartItemById(id, u)
       IN  Accept(s, IF ~IsValidObjectId(id) THEN Responded(r, 400, NoSummary)
                     ELSE IF UpdateQtyRejected(q) THEN Responded(r, 400, NoSummary)
                     ELSE IF ~storeUp THEN Responded(r, 500, NoSummary)
                     ELSE IF item = NoItem THEN Responded(r, 404, NoSummary)
                     ELSE [Await(r, "save") EXCEPT !.item = item])
  /\ UNCHANGED <<products, cartItems, wishlistItems, nextId, storeUp>>

\* item.quantity = qty; await item.save()
UpdateCartQtySave(s) ==
  LET r == rq[s]
  IN
  /\ r.op = "updateCartQty" /\ r.pc = "save"
  /\ IF ~storeUp THEN
       /\ rq' = [rq EXCEPT ![s] = Responded(r, 500, NoSummary)]
       /\ UNCHANGED cartItems
     ELSE IF Stored(r.item) THEN
       /\ cartItems' = SaveQuantity(r.item, UpdateQty(r.quantity))
       /\ rq' = [rq EXCEPT ![s] = Await(r, "summary")]
     ELSE
       /\ \E outcome \in SaveMissingOutcomes :
            rq' = [rq EXCEPT ![s] = IF outcome = "throw"
                                      THEN Responded(r, 500, NoSummary)
                                      ELSE Await(r, "summary")]
       /\ UNCHANGED cartItems
  /\ UNCHANGED <<products, wishlistItems, nextId, storeUp, started>>

\* const summary = await buildCartSummary(userId); res.json(summary)
CartSummary(s) ==
  /\ rq[s].op \in {"updateCartQty", "removeCartItem"} /\ rq[s].pc = "summary"
  /\ rq' = [rq EXCEPT ![s] =
              IF storeUp THEN Responded(@, 200, BuildCartSummary(rq[s].user))
                         ELSE Responded(@, 500, NoSummary)]
  /\ UNCHANGED <<products, cartItems, wishlistItems, nextId, storeUp, started>>

\* --------------------------------------------------------- removeCartItem
\* DELETE /api/cart/:id: validation and CartItem.findOneAndDelete.
RemoveCartItem(s) ==
  /\ Free(s)
  /\ \E u \in Users, id \in CartIdInputs :
       LET r == [IdleRequest EXCEPT !.op = "removeCartItem", !.user = u, !.id = id]
           removed == FindCartItemById(id, u)
       IN  IF ~IsValidObjectId(id) THEN
             /\ Accept(s, Responded(r, 400, NoSummary))
             /\ UNCHANGED cartItems
           ELSE IF ~storeUp THEN
             /\ Accept(s, Responded(r, 500, NoSummary))
             /\ UNCHANGED cartItems
           ELSE IF removed = NoItem THEN
             /\ Accept(s, Responded(r, 404, NoSummary))
             /\ UNCHANGED cartItems
           ELSE
             /\ Accept(s, Await(r, "summary"))
             /\ cartItems' = cartItems \ {removed}
  /\ UNCHANGED <<products, wishlistItems, nextId, storeUp>>

\* -------------------------------------------------------------- clearCart
\* A deleteMany that lost its user filter.
DeleteManyCartUnscoped(userId) == {}

\* await CartItem.deleteMany({ user: userId })
DeleteManyCart(userId) == {i \in cartItems : i.user # userId}

\* DELETE /api/cart
ClearCart(s) ==
  /\ Free(s)
  /\ \E u \in Users :
       LET r == [IdleRequest EXCEPT !.op = "clearCart", !.user = u]
       IN  IF storeUp THEN
             /\ cartItems' = DeleteManyCart(u)
             /\ Accept(s, Responded(r, 200, [items |-> {}, count |-> 0, total |-> 0]))
           ELSE
             /\ Accept(s, Responded(r, 500, NoSummary))
             /\ UNCHANGED cartItems
  /\ UNCHANGED <<products, wishlistItems, nextId, storeUp>>

\* ------------------------------------------------------------ store faults
\* The store becomes unreachable, or reachable again, at any moment.
StoreFault ==
  /\ storeUp' = ~storeUp
  /\ UNCHANGED <<products, cartItems, wishlistItems, nextId, rq, started>>

\* -------------------------------------------------------- cart, no faults
NextCart ==
  \E s \in Slots :
    \/ AddToCart(s, SeedProductIds, PlainQuantities)
    \/ AddToCartFindItem(s)
    \/ AddToCartWrite(s)
    \/ AddToCartSummary(s)
    \/ AddToCartConflict(s)
    \/ UpdateCartQty(s, CartIdInputs \X PlainQuantities)
    \/ UpdateCartQtySave(s)
    \/ CartSummary(s)
    \/ RemoveCartItem(s)
    \/ ClearCart(s)

Spec == Init /\ [][NextCart]_vars


\* C1: at most one CartItem per (user, product) pair, in every reachable
\* state, under any interleaving of addToCart, updateCartQty, removeCartItem
\* and clearCart; an add of a product already in the cart adds no second one.
C1_OneCartItemPerPair ==
  \A i, j \in cartItems :
    (i.user = j.user /\ i.product = j.product) => i = j

\* An addToCart that found the product in the caller's cart has answered 201
\* and the pair's single item carries the incremented quantity.
C1_Witness ==
  \E s \in Slots :
    /\ rq[s].op = "addToCart" /\ rq[s].status = 201 /\ rq[s].item # NoItem
    /\ \E i \in cartItems :
         /\ i.id = rq[s].item.id
         /\ i.quantity = rq[s].item.quantity + AddQty(rq[s].quantity)

\* ------------------------------------------------- addToCart requests only
NextAddRace ==
  \E s \in Slots :
    \/ AddToCart(s, SeedProductIds, PlainQuantities)
    \/ AddToCartFindItem(s)
    \/ AddToCartWrite(s)
    \/ AddToCartSummary(s)
    \/ AddToCartConflict(s)

SpecAddRace == Init /\ [][NextAddRace]_vars

\* Two addToCart requests for one (user, product) pair that both read "no
\* existing item".
Raced(s, t) ==
  /\ s # t
  /\ rq[s].op = "addToCart" /\ rq[t].op = "addToCart"
  /\ rq[s].user = rq[t].user /\ rq[s].productId = rq[t].productId
  /\ rq[s].pc \in {"write", "summary", "conflict", "done"}
  /\ rq[t].pc \in {"write", "summary", "conflict", "done"}
  /\ rq[s].item = NoItem /\ rq[t].item = NoItem

PairItems(user, productId, items) ==
  {i \in items : i.user = user /\ i.product = productId}

\* C4: of two addToCart requests that raced past the existing-item read, one
\* creates the CartItem and answers 201, the other answers 409 with a fresh
\* summary holding the winner's single item; neither answers 500 and the
\* loser's quantity is never written.
C4_RaceResolved ==
  \A s, t \in Slots :
    Raced(s, t) =>
      /\ ~(rq[s].pc \in {"summary", "done"} /\ rq[s].status \in {0, 201}
           /\ rq[t].pc \in {"summary", "done"} /\ rq[t].status \in {0, 201})
      /\ rq[s].status # 500
      /\ (rq[s].pc = "done" /\ rq[t].pc = "done") =>
           {rq[s].status, rq[t].status} = {201, 409}
      /\ (rq[s].pc = "done" /\ rq[t].pc = "done" /\ rq[s].status = 201) =>
           /\ rq[t].status = 409
           /\ \E i \in cartItems :
                /\ PairItems(rq[s].user, rq[s].productId, cartItems) = {i}
                /\ PairItems(rq[s].user, rq[s].productId, rq[t].summary.items) = {i}
                /\ i.quantity = AddQty(rq[s].quantity)

C4_Witness ==
  \E s, t \in Slots :
    /\ Raced(s, t)
    /\ rq[s].pc = "done" /\ rq[s].status = 201
    /\ rq[t].pc = "done" /\ rq[t].status = 409
    /\ rq[t].quantity # rq[s].quantity


\* ---------------------------------------------------------------- auth gate
\* The User collection, which no handler in scope writes: account -> role.
Accounts == {"u1", "u2", "a1", "a2"}

RoleOf(account) ==
  CASE account = "a1" -> <<"A", "d", "m", "i", "n">>
    [] account = "a2" -> <<"S", "u", "p", "e", "r", "A", "d", "m", "i", "n">>
    [] OTHER -> <<"u", "s", "e", "r">>

\* Bearer tokens: none, one that fails jwt.verify, a valid one of a deleted
\* account, and a valid one per account (decoded.id is the account).
ForgedToken == "forged"
OrphanToken == "gone"
Tokens == {NoToken, ForgedToken, OrphanToken} \cup Accounts

\* protect: 401 without a token, with one jwt.verify rejects, or with one
\* whose user is not found; otherwise req.user is the user. 0: next().
Protect(token) ==
  IF token = NoToken THEN 401
  ELSE IF token = ForgedToken THEN 401
  ELSE IF token \notin Accounts THEN 401
  ELSE 0

\* adminOrSuperAdmin: (req.user?.role || "").toLowerCase() is admin or superadmin
IsAdminRole(role) ==
  ToLowerCase(role) \in { <<"a", "d", "m", "i", "n">>,
                          <<"s", "u", "p", "e", "r", "a", "d", "m", "i", "n">> }

AdminOrSuperAdmin(token) ==
  IF IsAdminRole(IF token \in Accounts THEN RoleOf(token) ELSE <<>>) THEN 0 ELSE 403

\* The two registrations of the product routes.
ProductRouters == {"productRoutes", "productUploadRoutes"}

\* The middleware in front of each product mutation: the status it answers,
\* or 0 when the request reaches the handler.
Gate(router, op, token) ==
  IF router = "productUploadRoutes" /\ op = "createProduct"
    THEN 0  \* router.post("/", upload.single("image"), createProduct)
    ELSE IF Protect(token) # 0 THEN Protect(token) ELSE AdminOrSuperAdmin(token)


\* ---------------------------------------------------------- product store
\* A JavaScript truthy string: defined and not empty.
Truthy(str) == str # Absent /\ str # <<>>

\* A Product collection without the unique index on sku.
SkuDuplicateKeyNoIndex(id, sku) == FALSE

\* The unique sparse index on Product.sku: a write that gives document id the
\* sku fails with duplicate key error 11000 when another document holds it.
SkuDuplicateKey(id, sku) ==
  sku # Absent /\ \E p \in products : p.id # id /\ p.sku = sku

\* Product.findOne({ sku }), Product.findOne({ sku, _id: { $ne: id } })
SkuClash(id, sku) == \E p \in products : p.id # id /\ p.sku = sku

ProductExists(id) == \E p \in products : p.id = id
ProductById(id) == CHOOSE p \in products : p.id = id

ProductOp(r, op, router, token) ==
  [r EXCEPT !.op = op, !.router = router, !.token = token]

\* ---------------------------------------------------------- createProduct
\* The sku the created document stores: sku ? String(sku).trim() : undefined
CreatedSku(sku) == IF Truthy(sku) THEN Trim(sku) ELSE Absent

\* const doc = await Product.create({...}); res.status(201).json(doc)
\* A document carries the fields the cart, the wishlist and the sku index
\* read: isActive (created true), price and sku.
ProductCreate(s, r) ==
  IF ~storeUp THEN
    /\ rq' = [rq EXCEPT ![s] = Responded(r, 500, NoSummary)]
    /\ UNCHANGED <<products, nextId>>
  ELSE IF SkuDuplicateKey(NoId, CreatedSku(r.sku)) THEN
    /\ rq' = [rq EXCEPT ![s] = Responded(r, 409, NoSummary)]
    /\ UNCHANGED <<products, nextId>>
  ELSE
    /\ products' = products \cup
         {[id |-> nextId, isActive |-> TRUE, price |-> ToNumber(r.price).val,
           sku |-> CreatedSku(r.sku)]}
    /\ nextId' = nextId + 1
    /\ rq' = [rq EXCEPT ![s] = Responded(r, 201, NoSummary)]

\* POST /api/products: the gate, validation, and the first store operation
\* (the sku lookup when a sku is sent, the insert otherwise).  named: whether
\* name, category and type are all present.
CreateProduct(s, routers, tokens, named, skus, prices) ==
  /\ Free(s)
  /\ started' = started + 1
  /\ \E router \in routers, token \in tokens, n \in named,
        sku \in skus, price \in prices :
       LET r == [ProductOp(IdleRequest, "createProduct", router, token)
                   EXCEPT !.sku = sku, !.price = price]
           gate == Gate(router, "createProduct", token)
       IN  IF gate # 0 \/ ~n \/ price = Absent \/ ToNumber(price).nan
               \/ (Truthy(sku) /\ (~storeUp \/ SkuClash(NoId, sku))) THEN
             /\ rq' = [rq EXCEPT ![s] =
                         Responded(r, IF gate # 0 THEN gate
                                      ELSE IF ~n THEN 400
                                      ELSE IF price = Absent \/ ToNumber(price).nan
                                        THEN 400
                                      ELSE IF ~storeUp THEN 500 ELSE 409,
                                   NoSummary)]
             /\ UNCHANGED <<products, nextId>>
           ELSE IF Truthy(sku) THEN
             /\ rq' = [rq EXCEPT ![s] = Await(r, "create")]
             /\ UNCHANGED <<products, nextId>>
           ELSE ProductCreate(s, r)
  /\ UNCHANGED <<cartItems, wishlistItems, storeUp>>

CreateProductInsert(s) ==
  /\ rq[s].op = "createProduct" /\ rq[s].pc = "create"
  /\ ProductCreate(s, rq[s])
  /\ UNCHANGED <<cartItems, wishlistItems, storeUp, started>>

\* ---------------------------------------------------------- updateProduct
\* payload.sku: set only when req.body.sku is truthy, and then trimmed.
PayloadHasSku(sku) == Truthy(sku)
PayloadSku(sku) == Trim(sku)

\* Product.findByIdAndUpdate(id, payload, { new: true, runValidators: true })
ProductUpdate(s, r) ==
  IF ~storeUp \/ (r.price # Absent /\ ToNumber(r.price).nan) THEN
    \* a store failure, or the CastError of a NaN price
    /\ rq' = [rq EXCEPT ![s] = Responded(r, 500, NoSummary)]
    /\ UNCHANGED products
  ELSE IF ~ProductExists(r.id) THEN
    /\ rq' = [rq EXCEPT ![s] = Responded(r, 404, NoSummary)]
    /\ UNCHANGED products
  ELSE IF PayloadHasSku(r.sku) /\ SkuDuplicateKey(r.id, PayloadSku(r.sku)) THEN
    /\ rq' = [rq EXCEPT ![s] = Responded(r, 409, NoSummary)]
    /\ UNCHANGED products
  ELSE
    /\ products' =
         { IF p.id = r.id
             THEN [p EXCEPT
                     !.sku = IF PayloadHasSku(r.sku) THEN PayloadSku(r.sku) ELSE @,
                     !.price = IF r.price # Absent THEN ToNumber(r.price).val ELSE @]
             ELSE p : p \in products }
    /\ rq' = [rq EXCEPT ![s] = Responded(r, 200, NoSummary)]

\* PUT /api/products/:id: the gate, id validation, and the first store
\* operation (the sku clash lookup when payload.sku is truthy, the update
\* otherwise).
UpdateProduct(s, routers, tokens, ids, skus, prices) ==
  /\ Free(s)
  /\ started' = started + 1
  /\ \E router \in routers, token \in tokens, id \in ids,
        sku \in skus, price \in prices :
       LET r == [ProductOp(IdleRequest, "updateProduct", router, token)
                   EXCEPT !.id = id, !.sku = sku, !.price = price]
           gate == Gate(router, "updateProduct", token)
           lookup == PayloadHasSku(sku) /\ PayloadSku(sku) # <<>>
       IN  IF gate # 0 \/ ~IsValidObjectId(id)
               \/ (lookup /\ (~storeUp \/ SkuClash(id, PayloadSku(sku)))) THEN
             /\ rq' = [rq EXCEPT ![s] =
                         Responded(r, IF gate # 0 THEN gate
                                      ELSE IF ~IsValidObjectId(id) THEN 400
                                      ELSE IF ~storeUp THEN 500 ELSE 409,
                                   NoSummary)]
             /\ UNCHANGED products
           ELSE IF lookup THEN
             /\ rq' = [rq EXCEPT ![s] = Await(r, "update")]
             /\ UNCHANGED products
           ELSE ProductUpdate(s, r)
  /\ UNCHANGED <<cartItems, wishlistItems, nextId, storeUp>>

UpdateProductWrite(s) ==
  /\ rq[s].op = "updateProduct" /\ rq[s].pc = "update"
  /\ ProductUpdate(s, rq[s])
  /\ UNCHANGED <<cartItems, wishlistItems, nextId, storeUp, started>>

\* ---------------------------------------------------------- deleteProduct
\* DELETE /api/products/:id: the gate, id validation, findByIdAndDelete.
DeleteProduct(s, routers, tokens, ids) ==
  /\ Free(s)
  /\ started' = started + 1
  /\ \E router \in routers, token \in tokens, id \in ids :
       LET r == [ProductOp(IdleRequest, "deleteProduct", router, token)
                   EXCEPT !.id = id]
           gate == Gate(router, "deleteProduct", token)
       IN  IF gate = 0 /\ IsValidObjectId(id) /\ storeUp /\ ProductExists(id) THEN
             /\ products' = products \ {ProductById(id)}
             /\ rq' = [rq EXCEPT ![s] = Responded(r, 200, NoSummary)]
           ELSE
             /\ rq' = [rq EXCEPT ![s] =
                         Responded(r, IF gate # 0 THEN gate
                                      ELSE IF ~IsValidObjectId(id) THEN 400
                                      ELSE IF ~storeUp THEN 500 ELSE 404,
                                   NoSummary)]
             /\ UNCHANGED products
  /\ UNCHANGED <<cartItems, wishlistItems, nextId, storeUp>>

\* ---------------------------------------------------- toggleProductActive
\* PATCH /api/products/:id/toggle: the gate, id validation, Product.findById.
ToggleProductActive(s, routers, tokens, ids) ==
  /\ Free(s)
  /\ \E router \in routers, token \in tokens, id \in ids :
       LET r == [ProductOp(IdleRequest, "toggleProductActive", router, token)
                   EXCEPT !.id = id]
           gate == Gate(router, "toggleProductActive", token)
       IN  Accept(s, IF gate # 0 THEN Responded(r, gate, NoSummary)
                     ELSE IF ~IsValidObjectId(id) THEN Responded(r, 400, NoSummary)
                     ELSE IF ~storeUp THEN Responded(r, 500, NoSummary)
                     ELSE IF ~ProductExists(id) THEN Responded(r, 404, NoSummary)
                     ELSE [Await(r, "toggleSave") EXCEPT !.product = ProductById(id)])
  /\ UNCHANGED <<products, cartItems, wishlistItems, nextId, storeUp>>

\* product.isActive = !product.isActive; await product.save()
ToggleProductSave(s) ==
  LET r == rq[s]
  IN
  /\ r.op = "toggleProductActive" /\ r.pc = "toggleSave"
  /\ IF ~storeUp THEN
       /\ rq' = [rq EXCEPT ![s] = Responded(r, 500, NoSummary)]
       /\ UNCHANGED products
     ELSE IF ProductExists(r.id) THEN
       /\ products' = { IF p.id = r.id
                          THEN [p EXCEPT !.isActive = ~r.product.isActive]
                          ELSE p : p \in products }
       /\ rq' = [rq EXCEPT ![s] = Responded(r, 200, NoSummary)]
     ELSE
       /\ \E outcome \in SaveMissingOutcomes :
            rq' = [rq EXCEPT ![s] =
                     Responded(r, IF outcome = "throw" THEN 500 ELSE 200, NoSummary)]
       /\ UNCHANGED products
  /\ UNCHANGED <<cartItems, wishlistItems, nextId, storeUp, started>>


\* ---------------------------------------------------------------- wishlist
\* A WishlistItem collection without the unique index.
WishlistDuplicateKeyNoIndex(userId, productId) == FALSE

\* wishlistItemSchema.index({ user: 1, product: 1 }, { unique: true })
WishlistDuplicateKey(userId, productId) ==
  \E w \in wishlistItems : w.user = userId /\ w.product = productId

\* find({ user }).populate({ path: "product", match: { isActive: true } }),
\* then filter(i => i.product)
CleanWishlist(userId) ==
  {w \in wishlistItems : w.user = userId /\ ActiveProduct(w.product)}

\* GET /api/wishlist
GetWishlist(s) ==
  /\ Free(s)
  /\ \E u \in Users :
       LET r == [IdleRequest EXCEPT !.op = "getWishlist", !.user = u]
       IN  Accept(s, IF storeUp
                       THEN Responded(r, 200, [NoSummary EXCEPT
                                                 !.items = CleanWishlist(u)])
                       ELSE Responded(r, 500, NoSummary))
  /\ UNCHANGED <<products, cartItems, wishlistItems, nextId, storeUp>>

\* POST /api/wishlist: validation and Product.findOne.
AddToWishlist(s, productIds) ==
  /\ Free(s)
  /\ \E u \in Users, pid \in productIds :
       LET r == [IdleRequest EXCEPT !.op = "addToWishlist", !.user = u,
                                    !.productId = pid]
       IN  Accept(s, IF ~IsValidObjectId(pid) THEN Responded(r, 400, NoSummary)
                     ELSE IF ~storeUp THEN Responded(r, 500, NoSummary)
                     ELSE IF ~ActiveProduct(pid) THEN Responded(r, 404, NoSummary)
                     ELSE Await(r, "create"))
  /\ UNCHANGED <<products, cartItems, wishlistItems, nextId, storeUp>>

\* const item = await WishlistItem.create({ user, product }); 201, or the
\* catch block: 409 on err.code === 11000, else 500.
AddToWishlistCreate(s) ==
  LET r == rq[s]
  IN
  /\ r.op = "addToWishlist" /\ r.pc = "create"
  /\ IF ~storeUp \/ WishlistDuplicateKey(r.user, r.productId) THEN
       /\ rq' = [rq EXCEPT ![s] =
                   Responded(r, IF ~storeUp THEN 500 ELSE 409, NoSummary)]
       /\ UNCHANGED <<wishlistItems, nextId>>
     ELSE
       /\ wishlistItems' = wishlistItems \cup
            {[id |-> nextId, user |-> r.user, product |-> r.productId]}
       /\ nextId' = nextId + 1
       /\ rq' = [rq EXCEPT ![s] = Responded(r, 201, NoSummary)]
  /\ UNCHANGED <<products, cartItems, storeUp, started>>

\* DELETE /api/wishlist/:productId: validation and findOneAndDelete.
RemoveWishlistItem(s, productIds) ==
  /\ Free(s)
  /\ started' = started + 1
  /\ \E u \in Users, pid \in productIds :
       LET r == [IdleRequest EXCEPT !.op = "removeWishlistItem", !.user = u,
                                    !.productId = pid]
       IN  IF IsValidObjectId(pid) /\ storeUp /\ WishlistDuplicateKey(u, pid) THEN
             /\ wishlistItems' =
                  {w \in wishlistItems : ~(w.user = u /\ w.product = pid)}
             /\ rq' = [rq EXCEPT ![s] = Responded(r, 200, NoSummary)]
           ELSE
             /\ rq' = [rq EXCEPT ![s] =
                         Responded(r, IF ~IsValidObjectId(pid) THEN 400
                                      ELSE IF ~storeUp THEN 500 ELSE 404,
                                   NoSummary)]
             /\ UNCHANGED wishlistItems
  /\ UNCHANGED <<products, cartItems, nextId, storeUp>>

\* await WishlistItem.deleteMany({ user: userId })
DeleteManyWishlist(userId) == {w \in wishlistItems : w.user # userId}

\* DELETE /api/wishlist
ClearWishlist(s) ==
  /\ Free(s)
  /\ \E u \in Users :
       LET r == [IdleRequest EXCEPT !.op = "clearWishlist", !.user = u]
       IN  IF storeUp THEN
             /\ wishlistItems' = DeleteManyWishlist(u)
             /\ Accept(s, Responded(r, 200, NoSummary))
           ELSE
             /\ Accept(s, Responded(r, 500, NoSummary))
             /\ UNCHANGED wishlistItems
  /\ UNCHANGED <<products, cartItems, nextId, storeUp>>


\* --------------------------------------------- the cart against the catalog
\* An administrator on the gated product routes.
AdminTokens == {"a1"}
NewPrices == { <<"7">> }

NextSummary ==
  \E s \in Slots :
    \/ GetCart(s)
    \/ AddToCart(s, SeedProductIds, PlainQuantities)
    \/ AddToCartFindItem(s)
    \/ AddToCartWrite(s)
    \/ AddToCartSummary(s)
    \/ AddToCartConflict(s)
    \/ UpdateProduct(s, {"productRoutes"}, AdminTokens, SeedProductIds,
                     {Absent}, NewPrices)
    \/ ToggleProductActive(s, {"productRoutes"}, AdminTokens, SeedProductIds)
    \/ ToggleProductSave(s)
    \/ DeleteProduct(s, {"productRoutes"}, AdminTokens, SeedProductIds)

SpecSummary == Init /\ [][NextSummary]_vars

\* The sum of quantity over a set of cart items.
RECURSIVE SumQuantity(_)
SumQuantity(docs) ==
  IF docs = {} THEN 0
  ELSE LET d == CHOOSE e \in docs : TRUE
       IN  d.quantity + SumQuantity(docs \ {d})

\* The sum of quantity x the catalog's price of the product over cart items.
RECURSIVE SumCost(_, _)
SumCost(docs, catalog) ==
  IF docs = {} THEN 0
  ELSE LET d == CHOOSE e \in docs : TRUE
       IN  d.quantity * (CHOOSE p \in catalog : p.id = d.product).price
             + SumCost(docs \ {d}, catalog)

\* The user's cart items whose product exists and is active, in a store.
Surviving(items, catalog, user) ==
  {i \in items : i.user = user
                 /\ \E p \in catalog : p.id = i.product /\ p.isActive}

ExpectedCount(items, catalog, user) ==
  SumQuantity(Surviving(items, catalog, user))

ExpectedTotal(items, catalog, user) ==
  SumCost(Surviving(items, catalog, user), catalog)

\* The spec's example cart: (price 10, qty 2) and (price 5, qty 1), both active.
ExampleCart(user) ==
  /\ \E i, j \in cartItems :
       /\ {k \in cartItems : k.user = user} = {i, j}
       /\ i.product = 1 /\ i.quantity = 2
       /\ j.product = 2 /\ j.quantity = 1
  /\ \A p \in SeedProducts : p \in products

\* C2: the summary getCart returns has count = the sum of quantity over the
\* caller's items whose product exists and is active, and total = the sum of
\* quantity x the product's price as stored when getCart reads, so a price
\* written by updateProduct shows in the next getCart; the example cart
\* gives count 3 and total 25.
C2_SummaryIsFresh ==
  /\ [](\A u \in Users :
          ExampleCart(u) =>
            BuildCartSummary(u).count = 3 /\ BuildCartSummary(u).total = 25)
  /\ [][\A s \in Slots :
          (rq'[s] # rq[s] /\ rq'[s].op = "getCart" /\ rq'[s].status = 200) =>
            /\ rq'[s].summary.count =
                 ExpectedCount(cartItems', products', rq'[s].user)
            /\ rq'[s].summary.total =
                 ExpectedTotal(cartItems', products', rq'[s].user)
            /\ rq'[s].summary.items =
                 Surviving(cartItems', products', rq'[s].user)]_vars

\* A getCart answered with the total at the price updateProduct has written.
C2_Witness ==
  \E s \in Slots, i \in cartItems, p \in products :
    /\ rq[s].op = "getCart" /\ rq[s].status = 200 /\ rq[s].user = i.user
    /\ p.id = i.product /\ p.isActive /\ p.price = 7
    /\ rq[s].summary.items = {i}
    /\ rq[s].summary.total = 7 * i.quantity /\ rq[s].summary.count = i.quantity


\* ------------------------------------------------------------ soft orphaning
\* A store with carts and wishlists already filled by earlier requests.
FilledCart ==
  { [id |-> 3, user |-> "u1", product |-> 1, quantity |-> 2],
    [id |-> 4, user |-> "u1", product |-> 2, quantity |-> 1],
    [id |-> 5, user |-> "u2", product |-> 1, quantity |-> 1] }

FilledWishlist ==
  { [id |-> 6, user |-> "u1", product |-> 1],
    [id |-> 7, user |-> "u2", product |-> 2] }

InitFilled ==
  /\ products = SeedProducts
  /\ cartItems = FilledCart
  /\ wishlistItems = FilledWishlist
  /\ nextId = 8
  /\ storeUp = TRUE
  /\ rq = [s \in Slots |-> IdleRequest]
  /\ started = 0

NextOrphan ==
  \E s \in Slots :
    \/ GetCart(s)
    \/ GetWishlist(s)
    \/ ToggleProductActive(s, {"productRoutes"}, AdminTokens, SeedProductIds)
    \/ ToggleProductSave(s)
    \/ UpdateCartQty(s, CartIdInputs \X PlainQuantities)
    \/ UpdateCartQtySave(s)
    \/ CartSummary(s)
    \/ RemoveWishlistItem(s, SeedProductIds)

SpecOrphan == InitFilled /\ [][NextOrphan]_vars

IsActiveIn(catalog, productId) ==
  \E p \in catalog : p.id = productId /\ p.isActive

\* The step is the save of a toggleProductActive on productId.
ToggleSaved(s, productId) ==
  /\ rq[s].op = "toggleProductActive" /\ rq[s].pc = "toggleSave"
  /\ rq[s].id = productId /\ rq'[s].status = 200

\* C3: a toggleProductActive that makes a product inactive removes the cart
\* and wishlist items referencing it from what getCart / getWishlist return
\* (items, count, total) and leaves the stored rows as they are; one that
\* makes it active again brings the same stored items, with their
\* quantities, back.  A toggle whose read of isActive is still the stored
\* value when it saves (it follows the previous toggle) does flip the product.
C3_SoftOrphaning ==
  [][/\ \A p \in SeedProductIds, t \in Slots :
          ToggleSaved(t, p) =>
            /\ cartItems' = cartItems /\ wishlistItems' = wishlistItems
            /\ (rq[t].product.isActive = IsActiveIn(products, p)) =>
                 IsActiveIn(products', p) = ~IsActiveIn(products, p)
            /\ \A u \in Users :
                 LET rows  == {i \in cartItems : i.user = u /\ i.product = p}
                     wrows == {w \in wishlistItems : w.user = u /\ w.product = p}
                     before == BuildCartSummary(u)
                     after  == BuildCartSummary(u)'
                 IN  IF IsActiveIn(products', p) = IsActiveIn(products, p)
                       THEN after = before /\ CleanWishlist(u)' = CleanWishlist(u)
                     ELSE IF IsActiveIn(products, p)
                       THEN /\ after.items = before.items \ rows
                            /\ after.count = before.count - SumQuantity(rows)
                            /\ after.total =
                                 before.total - SumCost(rows, products)
                            /\ CleanWishlist(u)' = CleanWishlist(u) \ wrows
                       ELSE /\ after.items = before.items \cup rows
                            /\ after.count = before.count + SumQuantity(rows)
                            /\ CleanWishlist(u)' = CleanWishlist(u) \cup wrows
     /\ \A s \in Slots :
          (rq'[s] # rq[s] /\ rq'[s].status = 200
             /\ rq'[s].op \in {"getCart", "getWishlist"}) =>
            /\ \A i \in rq'[s].summary.items : IsActiveIn(products', i.product)
            /\ rq'[s].summary.items =
                 {i \in (IF rq'[s].op = "getCart" THEN cartItems' ELSE wishlistItems') :
                    i.user = rq'[s].user /\ IsActiveIn(products', i.product)}
    ]_vars

\* A second toggle has made product 1 active again, after a first one made
\* it inactive, with the cart and wishlist rows referencing it still stored.
C3_Witness ==
  \E s, t \in Slots :
    /\ rq[s].op = "toggleProductActive" /\ rq[s].status = 200 /\ rq[s].id = 1
    /\ ~rq[s].product.isActive /\ IsActiveIn(products, 1)
    /\ rq[t].op = "toggleProductActive" /\ rq[t].status = 200 /\ rq[t].id = 1
    /\ rq[t].product.isActive
    /\ cartItems = FilledCart /\ wishlistItems = FilledWishlist
    /\ BuildCartSummary("u1").count = 3


\* --------------------------------------------- addToWishlist requests only
NextWishlistAdd ==
  \E s \in Slots :
    \/ AddToWishlist(s, ProductIdInputs)
    \/ AddToWishlistCreate(s)

SpecWishlistAdd == Init /\ [][NextWishlistAdd]_vars

InWishlist(user, productId) ==
  \E w \in wishlistItems : w.user = user /\ w.product = productId

\* C5: there is at most one WishlistItem per (user, product) pair; an
\* addToWishlist for a pair already in the wishlist answers 409 and leaves
\* the stored wishlist, the original entry included, as it is.
C5_WishlistDuplicateRefused ==
  /\ [](\A v, w \in wishlistItems :
          (v.user = w.user /\ v.product = w.product) => v = w)
  /\ [][\A s \in Slots :
          (rq'[s] # rq[s] /\ rq'[s].op = "addToWishlist"
             /\ InWishlist(rq'[s].user, rq'[s].productId)) =>
            /\ wishlistItems' = wishlistItems
            /\ rq'[s].pc = "done" => rq'[s].status = 409]_vars

C5_Witness ==
  \E s \in Slots :
    /\ rq[s].op = "addToWishlist" /\ rq[s].status = 409
    /\ Cardinality({w \in wishlistItems :
                      w.user = rq[s].user /\ w.product = rq[s].productId}) = 1

\* --------------------------------------------- createProduct, updateProduct
ValidPrices == { <<"7">> }
StoredProductIds == {p.id : p \in products}

NextCatalog ==
  \E s \in Slots :
    \/ CreateProduct(s, {"productRoutes"}, AdminTokens, {TRUE}, SkuInputs,
                     ValidPrices)
    \/ CreateProductInsert(s)
    \/ UpdateProduct(s, {"productRoutes"}, AdminTokens, StoredProductIds,
                     SkuInputs, {Absent})
    \/ UpdateProductWrite(s)

SpecCatalog == Init /\ [][NextCatalog]_vars

SkuStored(sku) == \E p \in products : p.sku = sku

\* C6: no two stored products have the same sku; a createProduct (that the
\* gate and validation let through) whose sku is that of a stored product
\* adds no product, and answers 409.
C6_SkuUnique ==
  /\ [](\A p, q \in products :
          (p.sku # Absent /\ p.sku = q.sku) => p = q)
  /\ [][\A s \in Slots :
          (rq'[s] # rq[s] /\ rq'[s].op = "createProduct"
             /\ Truthy(rq'[s].sku) /\ SkuStored(Trim(rq'[s].sku))) =>
            /\ products' = products
            /\ rq'[s].pc = "done" => rq'[s].status = 409]_vars

\* A createProduct whose sku, once trimmed, is a stored one was refused by
\* the index after its own lookup found no clash.
C6_Witness ==
  \E s \in Slots :
    /\ rq[s].op = "createProduct" /\ rq[s].status = 409
    /\ rq[s].sku = <<" ", "A">>
    /\ Cardinality({p \in products : p.sku = <<"A">>}) = 1


\* ------------------------------------------------ the gate on the catalog
GateTokens == {NoToken, ForgedToken, OrphanToken, "u1", "a1", "a2"}

NextGate ==
  \E s \in Slots :
    \/ CreateProduct(s, ProductRouters, GateTokens, {TRUE}, {Absent, <<"B">>},
                     ValidPrices)
    \/ CreateProductInsert(s)
    \/ UpdateProduct(s, ProductRouters, GateTokens, {1}, {<<"B">>}, {Absent})
    \/ UpdateProductWrite(s)
    \/ ToggleProductActive(s, ProductRouters, GateTokens, {1})
    \/ ToggleProductSave(s)
    \/ DeleteProduct(s, ProductRouters, GateTokens, {1})

SpecGate == Init /\ [][NextGate]_vars

ProductMutations ==
  {"createProduct", "updateProduct", "toggleProductActive", "deleteProduct"}

\* The caller presented a valid bearer token of an admin or superadmin.
IsAdminCaller(token) == token \in Accounts /\ IsAdminRole(RoleOf(token))

\* C7: on every registration of the product routes, a product mutation
\* changes the product store only for a caller with a valid bearer token
\* whose role is admin or superadmin (in any letter case); without a token
\* the answer is 401, with another role 403, and the store is unchanged.
C7_AdminGated ==
  [][\A s \in Slots :
       (rq'[s] # rq[s] /\ rq'[s].op \in ProductMutations) =>
         /\ products' # products => IsAdminCaller(rq'[s].token)
         /\ (rq'[s].token = NoToken /\ rq'[s].pc = "done") => rq'[s].status = 401
         /\ (rq'[s].token \in Accounts /\ ~IsAdminCaller(rq'[s].token)
               /\ rq'[s].pc = "done") => rq'[s].status = 403]_vars

\* ------------------------------------------------------ quantity updates
\* Every id with a valid quantity, and every quantity with the id of a
\* stored item.
QtyUpdateInputs ==
  (CartIdInputs \X {<<"2">>}) \cup ({4} \X QuantityInputs)

NextQty ==
  \E s \in Slots :
    \/ UpdateCartQty(s, QtyUpdateInputs)
    \/ UpdateCartQtySave(s)
    \/ CartSummary(s)
    \/ RemoveCartItem(s)

SpecQty == InitFilled /\ [][NextQty]_vars

\* The quantity parses to an integer >= 1.
ParsesToPositive(quantity) ==
  ~ParseInt(quantity).nan /\ ParseInt(quantity).val >= 1

Owns(user, id) == \E i \in cartItems : i.id = id /\ i.user = user

\* C8: updateCartQty answers 400 and changes no CartItem when the quantity
\* does not parse to an integer >= 1; answers 404 and changes none when no
\* CartItem with that (well-formed) id belongs to the caller; otherwise it
\* sets that item's quantity to exactly the parsed value and changes no
\* other CartItem.
C8_UpdateQuantityExact ==
  [][\A s \in Slots :
       (rq'[s] # rq[s] /\ rq'[s].op = "updateCartQty") =>
         LET r == rq'[s]
         IN  IF rq[s].op = "updateCartQty" /\ rq[s].pc = "summary" THEN
               cartItems' = cartItems
             ELSE IF rq[s].op = "updateCartQty" /\ rq[s].pc = "save" THEN
               \A i \in cartItems :
                 IF i.id = r.id
                   THEN [i EXCEPT !.quantity = ParseInt(r.quantity).val]
                          \in cartItems'
                        /\ Cardinality(cartItems') = Cardinality(cartItems)
                   ELSE i \in cartItems'
             ELSE
               /\ cartItems' = cartItems
               /\ ~ParsesToPositive(r.quantity) =>
                    r.pc = "done" /\ r.status = 400
               /\ (ParsesToPositive(r.quantity) /\ IsValidObjectId(r.id)
                     /\ ~Owns(r.user, r.id)) =>
                    r.pc = "done" /\ r.status = 404
               /\ (ParsesToPositive(r.quantity) /\ Owns(r.user, r.id)) =>
                    r.pc = "save"]_vars

\* An update with quantity "2.5" has set a stored quantity of 1 to 2, and the
\* caller's other item and the other user's item are as they were.
C8_Witness ==
  \E s \in Slots :
    /\ rq[s].op = "updateCartQty" /\ rq[s].status = 200
    /\ rq[s].quantity = <<"2", ".", "5">> /\ rq[s].id = 4
    /\ cartItems = (FilledCart \ {[id |-> 4, user |-> "u1", product |-> 2,
                                   quantity |-> 1]})
                     \cup {[id |-> 4, user |-> "u1", product |-> 2,
                            quantity |-> 2]}


\* ------------------------------------------------- the cart, store failing
NextFaults ==
  \/ StoreFault
  \/ \E s \in Slots :
       \/ GetCart(s)
       \/ AddToCart(s, {1}, {Absent})
       \/ AddToCartFindItem(s)
       \/ AddToCartWrite(s)
       \/ AddToCartSummary(s)
       \/ AddToCartConflict(s)
       \/ UpdateCartQty(s, CartIdInputs \X {<<"2">>})
       \/ UpdateCartQtySave(s)
       \/ CartSummary(s)
       \/ RemoveCartItem(s)
       \/ ClearCart(s)

SpecFaults == Init /\ [][NextFaults]_vars

Taxonomy == {200, 201, 400, 401, 403, 404, 409, 500}

\* C9: every handler invocation that has ended has sent exactly one
\* response, with a status of the taxonomy, whichever store operation failed
\* at whichever step; a failure of the summary re-read on addToCart's
\* duplicate-key path ends in a 500 response too.
C9_OneResponse ==
  \A s \in Slots :
    rq[s].pc \in {"done", "unhandled"} =>
      rq[s].responses = 1 /\ rq[s].status \in Taxonomy

\* --------------------------------------------------------------- clearing
NextClear ==
  \E s \in Slots :
    \/ AddToCart(s, SeedProductIds, {Absent})
    \/ AddToCartFindItem(s)
    \/ AddToCartWrite(s)
    \/ AddToCartSummary(s)
    \/ AddToCartConflict(s)
    \/ AddToWishlist(s, SeedProductIds)
    \/ AddToWishlistCreate(s)
    \/ ClearCart(s)
    \/ ClearWishlist(s)

SpecClear == InitFilled /\ [][NextClear]_vars

\* C10: clearCart and clearWishlist succeed whether or not the caller has
\* items; clearCart answers items = [], count = 0, total = 0, deletes every
\* CartItem of the caller and no other user's; clearWishlist deletes the
\* caller's WishlistItems and no other user's.
C10_ClearScoped ==
  [][\A s \in Slots :
       /\ (rq'[s] # rq[s] /\ rq'[s].op = "clearCart") =>
            /\ rq'[s].pc = "done" /\ rq'[s].status = 200
            /\ rq'[s].summary = [items |-> {}, count |-> 0, total |-> 0]
            /\ \A i \in cartItems : i \in cartItems' <=> i.user # rq'[s].user
            /\ cartItems' \subseteq cartItems
            /\ wishlistItems' = wishlistItems
       /\ (rq'[s] # rq[s] /\ rq'[s].op = "clearWishlist") =>
            /\ rq'[s].pc = "done" /\ rq'[s].status = 200
            /\ \A w \in wishlistItems :
                 w \in wishlistItems' <=> w.user # rq'[s].user
            /\ wishlistItems' \subseteq wishlistItems
            /\ cartItems' = cartItems]_vars

\* Two clearCart requests of u1 have both answered 200, so one of them
\* cleared a cart that was already empty, and u2's rows are all still stored.
C10_Witness ==
  /\ \A s \in Slots :
       rq[s].op = "clearCart" /\ rq[s].user = "u1" /\ rq[s].status = 200
  /\ started = 2
  /\ cartItems = {i \in FilledCart : i.user = "u2"}
  /\ wishlistItems = FilledWishlist

\* ------------------------------------------ arbitrary quantities sent in
\* The ids of the stored cart items, each with every quantity input.
StoredIdQuantityInputs == {i.id : i \in cartItems} \X QuantityInputs

NextQuantity ==
  \E s \in Slots :
    \/ AddToCart(s, {1}, QuantityInputs)
    \/ AddToCartFindItem(s)
    \/ AddToCartWrite(s)
    \/ AddToCartSummary(s)
    \/ AddToCartConflict(s)
    \/ UpdateCartQty(s, StoredIdQuantityInputs)
    \/ UpdateCartQtySave(s)
    \/ CartSummary(s)

SpecQuantity == Init /\ [][NextQuantity]_vars

\* A quantity that is absent, or parses to no number or to one below 1.
InvalidQuantity(quantity) ==
  quantity = Absent \/ ~ParsesToPositive(quantity)

\* C11: every stored CartItem has an integer quantity >= 1 whatever
\* quantities addToCart and updateCartQty are sent; an addToCart with an
\* absent or invalid quantity creates its item with quantity 1 (or adds 1 to
\* the item it read), and an updateCartQty whose quantity does not parse to
\* an integer >= 1 is answered 400 and never reaches the save.
C11_QuantityPositive ==
  /\ [](\A i \in cartItems : i.quantity \in Nat /\ i.quantity >= 1)
  /\ [](\A s \in Slots :
          (rq[s].op = "updateCartQty" /\ ~ParsesToPositive(rq[s].quantity)) =>
            rq[s].pc = "done" /\ rq[s].status = 400)
  /\ [][\A s \in Slots :
          (/\ rq[s].op = "addToCart" /\ rq[s].pc = "write"
           /\ rq'[s].pc = "summary"
           /\ InvalidQuantity(rq[s].quantity)) =>
            IF rq[s].item = NoItem
              THEN \E i \in cartItems' \ cartItems :
                     /\ i.user = rq[s].user /\ i.product = rq[s].productId
                     /\ i.quantity = 1
              ELSE Stored(rq[s].item) =>
                     [rq[s].item EXCEPT !.quantity = @ + 1] \in cartItems']_vars

\* A first add created the item with quantity 1, an add with quantity "a"
\* made it 2, and an update to "0" of that item was answered 400.
C11_Witness ==
  \E s, t \in Slots :
    /\ rq[s].op = "addToCart" /\ rq[s].status = 201
    /\ rq[s].quantity = <<"a">> /\ rq[s].item # NoItem
    /\ rq[s].item.quantity = 1
    /\ rq[t].op = "updateCartQty" /\ rq[t].status = 400
    /\ rq[t].quantity = <<"0">> /\ rq[t].id = rq[s].item.id
    /\ \E i \in cartItems : i.id = rq[s].item.id /\ i.quantity = 2

\* --------------------------------------- adds to an item already in a cart
\* Quantities as sent: none, two plain ones, and one that is coerced to 1.
IncrementQuantities == { Absent, <<"1">>, <<"2">>, <<"-", "1">> }

NextIncrement ==
  \E s \in Slots :
    \/ AddToCart(s, SeedProductIds, IncrementQuantities)
    \/ AddToCartFindItem(s)
    \/ AddToCartWrite(s)
    \/ AddToCartSummary(s)
    \/ AddToCartConflict(s)

SpecIncrement == InitFilled /\ [][NextIncrement]_vars

QuantityOf(id, items) == (CHOOSE i \in items : i.id = id).quantity

\* An addToCart that found the CartItem of its pair and answered 201.
AddedToExisting(s) ==
  /\ rq[s].op = "addToCart" /\ rq[s].pc = "done" /\ rq[s].status = 201
  /\ rq[s].item # NoItem

\* C12: no add is lost. The save of an addToCart that found the CartItem of
\* its pair raises the stored quantity by exactly the coerced amount; and
\* when two such requests for one pair are the only ones made, however they
\* interleaved, the stored quantity is the initial one plus both amounts.
C12_NoAddLost ==
  /\ [][\A s \in Slots :
          (/\ rq[s].op = "addToCart" /\ rq[s].pc = "write"
           /\ rq'[s].pc = "summary" /\ rq[s].item # NoItem) =>
            QuantityOf(rq[s].item.id, cartItems') =
              QuantityOf(rq[s].item.id, cartItems) + AddQty(rq[s].quantity)]_vars
  /\ [](\A s, t \in Slots :
          (/\ s # t /\ started = 2
           /\ AddedToExisting(s) /\ AddedToExisting(t)
           /\ rq[s].item.id = rq[t].item.id) =>
            \E initial \in FilledCart :
              /\ initial.id = rq[s].item.id
              /\ QuantityOf(initial.id, cartItems) =
                   initial.quantity + AddQty(rq[s].quantity)
                                    + AddQty(rq[t].quantity))

====
